---- MODULE Spec2Model ----
(***************************************************************************)
(* Model of the task application: the App component (session flag, form    *)
(* handlers), the AuthScreen's handleAuth, the useItems hook (the item      *)
(* store) and the remote backend they talk to (auth session, "tasks"       *)
(* table, pushed session-change notifications).                             *)
(*                                                                          *)
(* Every awaited call is split at its awaits: the call itself (synchronous  *)
(* part up to the first await), the resolution of getSession, the backend   *)
(* executing the request, and the continuation that applies the response.   *)
(***************************************************************************)
EXTENDS Integers, Sequences, FiniteSets, TLC

\* ------------------------------------------------------------------ bounds
\* Number of events: presses of a button that starts a remote call, session
\* expiry, token refresh.
MaxCalls == 3
\* Item operations of the hook that may be in flight together.
MaxOps == 2

\* ------------------------------------------------------------------ values
Users == {"A", "B"}
NoSession == "none"
Null == "null"
\* editingItem === null
NoItem == 0
Slots == 1..MaxOps

PRIORITIES == {"High", "Medium", "Low"}
\* priorities picked in the form (its initial value)
FormPriorities == {"Medium"}

ErrUnauth == "User not authenticated"
ErrRemote == "remote failure"
ErrNoRows == "no rows returned"

\* Text typed into a field: a sequence of characters.
Blank == " "
FieldTexts == {<<Blank>>, <<"t">>}
EmailTexts == {<<>>, <<"A">>, <<"B">>}

RECURSIVE Rep(_, _)
Rep(c, n) == IF n = 0 THEN <<>> ELSE <<c>> \o Rep(c, n - 1)

MinPasswordLen == 6
PasswordTexts ==
    { <<>>, Rep(Blank, MinPasswordLen), Rep("x", MinPasswordLen - 1),
      Rep("x", MinPasswordLen), <<Blank>> \o Rep("x", MinPasswordLen - 1) }

RECURSIVE TrimLeft(_)
TrimLeft(s) == IF s # <<>> /\ Head(s) = Blank THEN TrimLeft(Tail(s)) ELSE s

RECURSIVE TrimRight(_)
TrimRight(s) ==
    IF s # <<>> /\ s[Len(s)] = Blank THEN TrimRight(SubSeq(s, 1, Len(s) - 1)) ELSE s

\* String.prototype.trim
Trim(s) == TrimRight(TrimLeft(s))

\* ------------------------------------------------------------------ state
VARIABLES
    session,          \* backend auth client: the user of the current session, or NoSession
    tasks,            \* remote "tasks" table: a set of rows
    nextId,           \* next id the remote store assigns
    items,            \* useItems: items
    loading,          \* useItems: loading
    error,            \* useItems: error
    ops,              \* useItems calls in flight, one record per slot
    fetchUser,        \* user of the last select request sent to the "tasks" collection
    lastResult,       \* outcome of the item operation that completed last
    isAuthenticated,  \* App: isAuthenticated
    isCheckingAuth,   \* App: isCheckingAuth
    userEmail,        \* App: userEmail
    editingItem,      \* App: id of editingItem, or NoItem
    isSubmitting,     \* App: isSubmitting
    isLoading,        \* AuthScreen: isLoading
    auth,             \* AuthScreen: handleAuth in flight
    logout,           \* App: handleLogout in flight
    check,            \* App: checkAuth in flight, and the session its getSession resolved with
    subscribed,       \* App: the auth effect is set up and its cleanup has not run
    lastAuth,         \* the session event that happened last
    nCalls            \* events so far (bounded by MaxCalls)

backendVars == <<session, tasks, nextId>>
storeVars == <<items, loading, error, ops, fetchUser, lastResult>>
appVars == <<isAuthenticated, isCheckingAuth, userEmail, editingItem, isSubmitting>>
authVars == <<isLoading, auth, logout, check, subscribed, lastAuth>>
vars == <<backendVars, storeVars, appVars, authVars, nCalls>>

\* ------------------------------------------------------------------ rows
Row(id, user, title, category, priority) ==
    [id |-> id, user_id |-> user, title |-> title, category |-> category,
     priority |-> priority]

\* Rows persisted by earlier runs of the application.
SeedTasks ==
    { Row(1, "A", <<"t">>, <<"t">>, "High"),
      Row(2, "A", <<"t">>, <<"t">>, "Low"),
      Row(3, "B", <<"t">>, <<"t">>, "High") }

MaxIdOf(rows) == IF rows = {} THEN 0 ELSE CHOOSE n \in {r.id : r \in rows} :
                                             \A r \in rows : r.id <= n

\* .order('id', { ascending: false })
RECURSIVE OrderByIdDesc(_)
OrderByIdDesc(rows) ==
    IF rows = {} THEN <<>>
    ELSE LET top == CHOOSE r \in rows : \A q \in rows : q.id <= r.id
         IN  <<top>> \o OrderByIdDesc(rows \ {top})

\* the select of fetchItems with the priority filter of fetchHighPriorityTasks
SelectAllHighOnly(rows, userId) ==
    OrderByIdDesc({r \in rows : r.user_id = userId /\ r.priority = "High"})

\* from('tasks').select('*').eq('user_id', userId).order('id', desc)
SelectAll(rows, userId) == OrderByIdDesc({r \in rows : r.user_id = userId})

\* ... .eq('user_id', userId).eq('priority', 'High').order('id', desc)
SelectHigh(rows, userId) ==
    OrderByIdDesc({r \in rows : r.user_id = userId /\ r.priority = "High"})

\* rows an update / delete with .eq('id', id).eq('user_id', userId) matches
Matching(rows, id, userId) == {r \in rows : r.id = id /\ r.user_id = userId}

\* ------------------------------------------------------------------ hook helpers
\* setItems((prev) => [...prev, data])
createItemAppend(prev, data) == Append(prev, data)

\* setItems((prev) => [data, ...prev])
createItemApply(prev, data) == <<data>> \o prev

\* setItems((prev) => [data, ...prev.filter((item) => item.id !== id)])
updateItemMoveToFront(prev, id, data) ==
    <<data>> \o SelectSeq(prev, LAMBDA item : item.id # id)

\* setItems((prev) => prev.map((item) => (item.id === id ? data : item)))
updateItemApply(prev, id, data) ==
    [i \in 1..Len(prev) |-> IF prev[i].id = id THEN data ELSE prev[i]]

RECURSIVE FilterOut(_, _)
FilterOut(prev, id) ==
    IF prev = <<>> THEN <<>>
    ELSE IF Head(prev).id = id THEN FilterOut(Tail(prev), id)
         ELSE <<Head(prev)>> \o FilterOut(Tail(prev), id)

\* setItems((prev) => prev.filter((item) => item.id !== id))
deleteItemApply(prev, id) == FilterOut(prev, id)

NoFields == [title |-> <<>>, category |-> <<>>, priority |-> "Medium"]
\* A call of a hook function: where it stands (pc), the userId it read from the
\* session, its arguments, and the response on its way back (data, err).
\* fresh: no row of the table changed since the backend computed the response.
IdleOp == [kind |-> "none", pc |-> "idle", userId |-> NoSession, id |-> NoItem,
           fields |-> NoFields, data |-> <<>>, err |-> Null, fresh |-> TRUE]
NewOp(kind, id, fields) ==
    [kind |-> kind, pc |-> "getSession", userId |-> NoSession, id |-> id,
     fields |-> fields, data |-> <<>>, err |-> Null, fresh |-> TRUE]

FetchKinds == {"fetchItems", "fetchHigh"}
SubmitKinds == {"create", "update"}

HasFreeSlot == \E s \in Slots : ops[s].pc = "idle"
FreeSlot == CHOOSE s \in Slots : ops[s].pc = "idle" /\ \A t \in Slots : t < s => ops[t].pc # "idle"

\* The call that completed last: its kind, id argument and result, the length
\* of the list before it completed, the kind of the call completed before it
\* and, for clearItems, the slots of the calls in flight when it ran.
NoResult == [kind |-> "none", success |-> TRUE, error |-> Null, id |-> NoItem,
             lenBefore |-> 0, prev |-> "none", pending |-> {}]
Result(kind, id, err) ==
    [kind |-> kind, success |-> (err = Null), error |-> err, id |-> id,
     lenBefore |-> Len(items), prev |-> lastResult.kind,
     pending |-> IF kind = "clear" THEN {s \in Slots : ops[s].pc # "idle"} ELSE {}]

\* ------------------------------------------------------------------ init
\* The state after the first render and the synchronous part of the mount
\* effects: useItems has called fetchItems, App has called checkAuth and
\* subscribed to session changes.
Init ==
    /\ session \in {NoSession, "A"}
    /\ tasks = SeedTasks
    /\ nextId = MaxIdOf(tasks) + 1
    /\ items = <<>>
    /\ loading = TRUE
    /\ error = Null
    /\ ops = [s \in Slots |-> IF s = 1 THEN NewOp("fetchItems", NoItem, NoFields) ELSE IdleOp]
    /\ fetchUser = NoSession
    /\ lastResult = NoResult
    /\ isAuthenticated = FALSE
    /\ isCheckingAuth = TRUE
    /\ userEmail = Null
    /\ editingItem = NoItem
    /\ isSubmitting = FALSE
    /\ isLoading = FALSE
    /\ auth = [pc |-> "idle", mode |-> "signIn", user |-> NoSession, password |-> <<>>]
    /\ logout = "idle"
    /\ check = [pc |-> "pending", session |-> NoSession]
    /\ subscribed = TRUE
    /\ lastAuth = [op |-> "none", ok |-> TRUE]
    /\ nCalls = 0

\* ------------------------------------------------------------------ screens
\* App renders the main screen only when authenticated and done checking;
\* otherwise the spinner or the AuthScreen.
MainScreen == subscribed /\ ~isCheckingAuth /\ isAuthenticated
AuthScreenShown == subscribed /\ ~isCheckingAuth /\ ~isAuthenticated

\* ------------------------------------------------------------------ useItems: calls
\* The synchronous part of each hook function, up to its first await.
StartOp(kind, id, fields) == ops' = [ops EXCEPT ![FreeSlot] = NewOp(kind, id, fields)]

fetchItems ==
    /\ HasFreeSlot
    /\ loading' = TRUE
    /\ error' = Null
    /\ StartOp("fetchItems", NoItem, NoFields)
    /\ UNCHANGED <<items, fetchUser, lastResult>>

fetchHighPriorityTasks ==
    /\ HasFreeSlot
    /\ loading' = TRUE
    /\ error' = Null
    /\ StartOp("fetchHigh", NoItem, NoFields)
    /\ UNCHANGED <<items, fetchUser, lastResult>>

createItem(title, category, priority) ==
    /\ HasFreeSlot
    /\ error' = Null
    /\ StartOp("create", NoItem, [title |-> title, category |-> category, priority |-> priority])
    /\ UNCHANGED <<items, loading, fetchUser, lastResult>>

updateItem(id, title, category, priority) ==
    /\ HasFreeSlot
    /\ error' = Null
    /\ StartOp("update", id, [title |-> title, category |-> category, priority |-> priority])
    /\ UNCHANGED <<items, loading, fetchUser, lastResult>>

deleteItem(id) ==
    /\ HasFreeSlot
    /\ error' = Null
    /\ StartOp("delete", id, NoFields)
    /\ UNCHANGED <<items, loading, fetchUser, lastResult>>

\* ------------------------------------------------------------------ useItems: completion
\* What the list becomes when the call in slot s succeeds with `data`.
ItemsOnSuccess(op, data) ==
    CASE op.kind \in FetchKinds -> data
      [] op.kind = "create" -> createItemApply(items, data[1])
      [] op.kind = "update" -> updateItemApply(items, op.id, data[1])
      [] op.kind = "delete" -> deleteItemApply(items, op.id)

\* Complete with the list set before the error is looked at: a failed fetch
\* empties the list, setItems(data || [])
CompleteSetsFirst(s, err, data) ==
    LET op == ops[s]
        ok == err = Null
    IN  /\ items' = IF ok THEN ItemsOnSuccess(op, data)
                    ELSE IF op.kind \in FetchKinds THEN <<>> ELSE items
        /\ error' = IF ok THEN error ELSE err
        /\ loading' = IF op.kind \in FetchKinds THEN FALSE ELSE loading
        /\ ops' = [ops EXCEPT ![s] = IdleOp]
        /\ lastResult' = Result(op.kind, op.id, err)
        /\ isSubmitting' = IF op.kind \in SubmitKinds THEN FALSE ELSE isSubmitting
        /\ editingItem' = IF op.kind \in SubmitKinds /\ ok THEN NoItem ELSE editingItem

\* The end of the call in slot s: the success path when err is Null, the
\* catch block otherwise, the finally block of the two fetches, and the
\* continuation of handleSubmit for createItem / updateItem.
Complete(s, err, data) ==
    LET op == ops[s]
        ok == err = Null
    IN  /\ items' = IF ok THEN ItemsOnSuccess(op, data) ELSE items
        /\ error' = IF ok THEN error ELSE err
        /\ loading' = IF op.kind \in FetchKinds THEN FALSE ELSE loading
        /\ ops' = [ops EXCEPT ![s] = IdleOp]
        /\ lastResult' = Result(op.kind, op.id, err)
        /\ isSubmitting' = IF op.kind \in SubmitKinds THEN FALSE ELSE isSubmitting
        /\ editingItem' = IF op.kind \in SubmitKinds /\ ok THEN NoItem ELSE editingItem

\* GetSession without the check of userId: the request is sent anyway
GetSessionNoCheck(s) ==
    /\ ops[s].pc = "getSession"
    /\ ops' = [ops EXCEPT ![s].pc = "request", ![s].userId = session]
    /\ fetchUser' = IF ops[s].kind \in FetchKinds THEN session ELSE fetchUser
    /\ UNCHANGED <<items, loading, error, lastResult, isSubmitting, editingItem>>
    /\ UNCHANGED <<backendVars, isAuthenticated, isCheckingAuth, userEmail, authVars, nCalls>>

\* supabase.auth.getSession() resolves inside the call in slot s: without a
\* user the call throws, otherwise it sends its request to the collection.
GetSession(s) ==
    /\ ops[s].pc = "getSession"
    /\ IF session = NoSession
       THEN /\ Complete(s, ErrUnauth, <<>>)
            /\ UNCHANGED fetchUser
       ELSE /\ ops' = [ops EXCEPT ![s].pc = "request", ![s].userId = session]
            /\ fetchUser' = IF ops[s].kind \in FetchKinds THEN session ELSE fetchUser
            /\ UNCHANGED <<items, loading, error, lastResult, isSubmitting, editingItem>>
    /\ UNCHANGED <<backendVars, isAuthenticated, isCheckingAuth, userEmail, authVars, nCalls>>

\* ------------------------------------------------------------------ backend: the tasks collection
\* The backend answers the request of slot s, leaving the table as newTasks.
Respond(s, data, err, newTasks) ==
    /\ tasks' = newTasks
    /\ ops' = [t \in Slots |->
                IF t = s
                THEN [ops[s] EXCEPT !.pc = "response", !.data = data, !.err = err,
                                    !.fresh = TRUE]
                ELSE IF newTasks # tasks /\ ops[t].pc = "response" /\ ops[t].kind \in FetchKinds
                     THEN [ops[t] EXCEPT !.fresh = FALSE]
                     ELSE ops[t]]

RemoteSelect(s) ==
    /\ ops[s].pc = "request" /\ ops[s].kind \in FetchKinds
    /\ Respond(s, IF ops[s].kind = "fetchItems" THEN SelectAll(tasks, ops[s].userId)
                  ELSE SelectHigh(tasks, ops[s].userId), Null, tasks)
    /\ UNCHANGED nextId

\* insert([...]).select().single(): the store assigns the id
RemoteInsert(s) ==
    /\ ops[s].pc = "request" /\ ops[s].kind = "create"
    /\ LET row == Row(nextId, ops[s].userId, ops[s].fields.title,
                      ops[s].fields.category, ops[s].fields.priority)
       IN  /\ nextId' = nextId + 1
           /\ Respond(s, <<row>>, Null, tasks \cup {row})

\* update({ title, category, priority }) of one row
Updated(row, fields) ==
    [row EXCEPT !.title = fields.title, !.category = fields.category,
                !.priority = fields.priority]

\* the update without .eq('user_id', userId)
RemoteUpdateAnyOwner(s) ==
    /\ ops[s].pc = "request" /\ ops[s].kind = "update"
    /\ LET hit == {r \in tasks : r.id = ops[s].id}
       IN  IF hit = {}
           THEN Respond(s, <<>>, ErrNoRows, tasks)
           ELSE LET new == Updated(CHOOSE r \in hit : TRUE, ops[s].fields)
                IN  Respond(s, <<new>>, Null, (tasks \ hit) \cup {new})
    /\ UNCHANGED nextId

\* update({...}).eq('id', id).eq('user_id', userId).select().single(): an
\* error when no row matched, since single() wants exactly one row
RemoteUpdate(s) ==
    /\ ops[s].pc = "request" /\ ops[s].kind = "update"
    /\ LET hit == Matching(tasks, ops[s].id, ops[s].userId)
       IN  IF hit = {}
           THEN Respond(s, <<>>, ErrNoRows, tasks)
           ELSE LET new == Updated(CHOOSE r \in hit : TRUE, ops[s].fields)
                IN  Respond(s, <<new>>, Null, (tasks \ hit) \cup {new})
    /\ UNCHANGED nextId

\* delete().eq('id', id).eq('user_id', userId): no error when no row matched.
\* The response carries no rows; data keeps the rows the request removed,
\* which deleteItem never reads.
RemoteDelete(s) ==
    /\ ops[s].pc = "request" /\ ops[s].kind = "delete"
    /\ LET hit == Matching(tasks, ops[s].id, ops[s].userId)
       IN  Respond(s, OrderByIdDesc(hit), Null, tasks \ hit)
    /\ UNCHANGED nextId

\* network or service error: the request has no effect
RemoteFailure(s) ==
    /\ ops[s].pc = "request"
    /\ Respond(s, <<>>, ErrRemote, tasks)
    /\ UNCHANGED nextId

Backend(s) ==
    /\ \/ RemoteSelect(s)
       \/ RemoteInsert(s)
       \/ RemoteUpdate(s)
       \/ RemoteDelete(s)
       \/ RemoteFailure(s)
    /\ UNCHANGED <<session, items, loading, error, fetchUser, lastResult, appVars,
                   authVars, nCalls>>

\* The response reaches the call in slot s and its continuation runs.
Settle(s) ==
    /\ ops[s].pc = "response"
    /\ Complete(s, ops[s].err, ops[s].data)
    /\ UNCHANGED <<backendVars, fetchUser, isAuthenticated, isCheckingAuth, userEmail,
                   authVars, nCalls>>

\* ------------------------------------------------------------------ App: item handlers
Count == nCalls < MaxCalls /\ nCalls' = nCalls + 1

\* the "All" button: onPress={fetchItems}
PressAll ==
    /\ MainScreen /\ Count
    /\ fetchItems
    /\ UNCHANGED <<backendVars, appVars, authVars>>

\* the "High Priority" button: onPress={fetchHighPriorityTasks}
PressHighPriority ==
    /\ MainScreen /\ Count
    /\ fetchHighPriorityTasks
    /\ UNCHANGED <<backendVars, appVars, authVars>>

handleSubmit(title, category, priority) ==
    /\ MainScreen /\ ~isSubmitting
    /\ IF Trim(title) = <<>> \/ Trim(category) = <<>>
       THEN UNCHANGED vars
       ELSE /\ Count
            /\ isSubmitting' = TRUE
            /\ IF editingItem # NoItem
               THEN updateItem(editingItem, Trim(title), Trim(category), priority)
               ELSE createItem(Trim(title), Trim(category), priority)
            /\ UNCHANGED <<backendVars, isAuthenticated, isCheckingAuth, userEmail,
                           editingItem, authVars>>

handleEdit(item) ==
    /\ MainScreen
    /\ editingItem' = item.id
    /\ UNCHANGED <<backendVars, storeVars, isAuthenticated, isCheckingAuth, userEmail,
                   isSubmitting, authVars, nCalls>>

handleCancel ==
    /\ MainScreen /\ editingItem # NoItem
    /\ editingItem' = NoItem
    /\ UNCHANGED <<backendVars, storeVars, isAuthenticated, isCheckingAuth, userEmail,
                   isSubmitting, authVars, nCalls>>

\* the Delete button of a rendered item, confirmed in the alert
handleDelete(item) ==
    /\ MainScreen /\ Count
    /\ deleteItem(item.id)
    /\ UNCHANGED <<backendVars, appVars, authVars>>

ItemsShown == {items[i] : i \in 1..Len(items)}

StoreNext ==
    \/ \E s \in Slots : GetSession(s)
    \/ \E s \in Slots : Backend(s)
    \/ \E s \in Slots : Settle(s)
    \/ PressAll
    \/ PressHighPriority
    \/ \E t \in FieldTexts, c \in FieldTexts, p \in FormPriorities : handleSubmit(t, c, p)
    \/ \E item \in ItemsShown : handleEdit(item)
    \/ handleCancel
    \/ \E item \in ItemsShown : handleDelete(item)

\* ------------------------------------------------------------------ App: session
\* session?.user?.email || null (the model names a user by its email)
EmailOf(s) == IF s = NoSession THEN Null ELSE s

\* Records the session event of this step.
Event(op, ok) == lastAuth' = [op |-> op, ok |-> ok]

\* checkAuth: supabase.auth.getSession() resolves with the current session
checkAuthGetSession ==
    /\ check.pc = "pending"
    /\ check' = [pc |-> "resolved", session |-> session]
    /\ UNCHANGED <<backendVars, storeVars, appVars, isLoading, auth, logout, subscribed,
                   lastAuth, nCalls>>

\* checkAuth: the continuation after the await, then the finally block
checkAuth ==
    /\ check.pc = "resolved"
    /\ isAuthenticated' = (check.session # NoSession)
    /\ userEmail' = EmailOf(check.session)
    /\ isCheckingAuth' = FALSE
    /\ check' = [pc |-> "done", session |-> NoSession]
    /\ Event("check", TRUE)
    /\ UNCHANGED <<backendVars, storeVars, editingItem, isSubmitting, isLoading, auth,
                   logout, subscribed, nCalls>>

\* checkAuth: getSession rejects; the catch block logs, the finally block runs
checkAuthThrow ==
    /\ check.pc = "pending"
    /\ isCheckingAuth' = FALSE
    /\ check' = [pc |-> "done", session |-> NoSession]
    /\ Event("check", FALSE)
    /\ UNCHANGED <<backendVars, storeVars, isAuthenticated, userEmail, editingItem,
                   isSubmitting, isLoading, auth, logout, subscribed, nCalls>>

\* the cleanup of the auth effect, run when App is torn down:
\* subscription.unsubscribe()
Unmount ==
    /\ subscribed
    /\ subscribed' = FALSE
    /\ UNCHANGED <<backendVars, storeVars, appVars, isLoading, auth, logout, check,
                   lastAuth, nCalls>>

\* the callback given to supabase.auth.onAuthStateChange; the auth client
\* calls it, with the new session, as part of every change of its session
onAuthStateChange(s) ==
    /\ isAuthenticated' = (s # NoSession)
    /\ userEmail' = EmailOf(s)

\* the auth client notifies its subscribers of the session s: the callback
\* runs while the subscription is in place
Notify(s) ==
    IF subscribed THEN onAuthStateChange(s) ELSE UNCHANGED <<isAuthenticated, userEmail>>

\* setIsAuthenticated(true)
handleAuthSuccess == isAuthenticated' = TRUE

\* ------------------------------------------------------------------ AuthScreen
IdleAuth == [pc |-> "idle", mode |-> "signIn", user |-> NoSession, password |-> <<>>]

\* handleAuth up to its await: validation, setIsLoading(true), the request
handleAuth(email, password, mode) ==
    /\ AuthScreenShown /\ ~isLoading /\ auth.pc = "idle"
    /\ IF Trim(email) = <<>> \/ Trim(password) = <<>> \/ Len(password) < MinPasswordLen
       THEN UNCHANGED vars
       ELSE /\ Count
            /\ isLoading' = TRUE
            /\ auth' = [pc |-> "request", mode |-> mode, user |-> Trim(email)[1],
                        password |-> Trim(password)]
            /\ UNCHANGED <<backendVars, storeVars, appVars, logout, check, subscribed, lastAuth>>

\* signInWithPassword succeeds: the auth client stores the session and
\* notifies the subscriber, then handleAuth continues: onAuthSuccess, finally
signInOk ==
    /\ auth.pc = "request" /\ auth.mode = "signIn"
    /\ session' = auth.user
    /\ userEmail' = IF subscribed THEN EmailOf(auth.user) ELSE userEmail
    /\ handleAuthSuccess
    /\ isLoading' = FALSE
    /\ auth' = IdleAuth
    /\ Event("signIn", TRUE)
    /\ UNCHANGED <<tasks, nextId, storeVars, isCheckingAuth, editingItem, isSubmitting,
                   logout, check, subscribed, nCalls>>

\* signUp succeeds. With a session (no e-mail confirmation) the auth client
\* stores it and notifies the subscriber; without, data.user is set and
\* data.session is null. Either way handleAuth shows the success alert.
signUpOk(withSession) ==
    /\ auth.pc = "request" /\ auth.mode = "signUp"
    /\ IF withSession
       THEN session' = auth.user /\ Notify(auth.user)
       ELSE UNCHANGED <<session, isAuthenticated, userEmail>>
    /\ isLoading' = FALSE
    /\ auth' = [auth EXCEPT !.pc = "alert", !.password = <<>>]
    /\ Event("signUp", TRUE)
    /\ UNCHANGED <<tasks, nextId, storeVars, isCheckingAuth, editingItem, isSubmitting,
                   logout, check, subscribed, nCalls>>

\* signInWithPassword / signUp fails: the error alert, finally
authError ==
    /\ auth.pc = "request"
    /\ isLoading' = FALSE
    /\ auth' = IdleAuth
    /\ Event(auth.mode, FALSE)
    /\ UNCHANGED <<backendVars, storeVars, appVars, logout, check, subscribed, nCalls>>

\* the OK button of the "Account created successfully!" alert: onAuthSuccess
AlertOk ==
    /\ auth.pc = "alert"
    /\ auth' = IdleAuth
    /\ handleAuthSuccess
    /\ Event("alertOk", TRUE)
    /\ UNCHANGED <<backendVars, storeVars, isCheckingAuth, userEmail, editingItem,
                   isSubmitting, isLoading, logout, check, subscribed, nCalls>>

\* ------------------------------------------------------------------ App: logout
\* handleLogout up to its await
handleLogout ==
    /\ MainScreen /\ logout = "idle" /\ Count
    /\ logout' = "request"
    /\ UNCHANGED <<backendVars, storeVars, appVars, isLoading, auth, check, subscribed, lastAuth>>

\* signOut succeeds: the auth client drops the session and notifies the
\* subscriber, then handleLogout continues: setIsAuthenticated(false)
signOutOk ==
    /\ logout = "request"
    /\ session' = NoSession
    /\ userEmail' = IF subscribed THEN EmailOf(NoSession) ELSE userEmail
    /\ isAuthenticated' = FALSE
    /\ logout' = "idle"
    /\ Event("signOut", TRUE)
    /\ UNCHANGED <<tasks, nextId, storeVars, isCheckingAuth, editingItem, isSubmitting,
                   isLoading, auth, check, subscribed, nCalls>>

\* handleLogout without "if (error) throw error"
signOutErrorLogsOut ==
    /\ logout = "request"
    /\ logout' = "idle"
    /\ isAuthenticated' = FALSE
    /\ Event("signOut", FALSE)
    /\ UNCHANGED <<backendVars, storeVars, isCheckingAuth, userEmail, editingItem,
                   isSubmitting, isLoading, auth, check, subscribed, nCalls>>

\* signOut fails: handleLogout throws the error and shows the alert
signOutError ==
    /\ logout = "request"
    /\ logout' = "idle"
    /\ Event("signOut", FALSE)
    /\ UNCHANGED <<backendVars, storeVars, appVars, isLoading, auth, check, subscribed, nCalls>>

\* ------------------------------------------------------------------ backend: session events
\* the session expires: the auth client drops it and notifies the subscriber
SessionExpired ==
    /\ session # NoSession /\ Count
    /\ session' = NoSession
    /\ Notify(NoSession)
    /\ Event("pushNull", TRUE)
    /\ UNCHANGED <<tasks, nextId, storeVars, isCheckingAuth, editingItem, isSubmitting,
                   isLoading, auth, logout, check, subscribed>>

\* the token is refreshed: the auth client notifies the subscriber of the session
TokenRefreshed ==
    /\ session # NoSession /\ Count
    /\ Notify(session)
    /\ Event("pushSession", TRUE)
    /\ UNCHANGED <<backendVars, storeVars, isCheckingAuth, editingItem, isSubmitting,
                   isLoading, auth, logout, check, subscribed>>

AuthNext ==
    \/ checkAuthGetSession
    \/ checkAuth
    \/ checkAuthThrow
    \/ \E e \in EmailTexts, p \in PasswordTexts, m \in {"signIn", "signUp"} : handleAuth(e, p, m)
    \/ signInOk
    \/ \E withSession \in BOOLEAN : signUpOk(withSession)
    \/ authError
    \/ AlertOk
    \/ handleLogout
    \/ signOutOk
    \/ signOutError
    \/ SessionExpired
    \/ TokenRefreshed

Next == StoreNext \/ AuthNext

\* The application: App never calls clearItems.
Spec == Init /\ [][Next]_vars

\* ------------------------------------------------------------------ the hook with any consumer
\* useItems: clearItems
clearItems ==
    /\ items' = <<>>
    /\ error' = Null
    /\ lastResult' = Result("clear", NoItem, Null)
    /\ UNCHANGED <<loading, ops, fetchUser>>

\* a consumer of the hook calls clearItems, at any time
ClearItemsCall ==
    /\ Count
    /\ clearItems
    /\ UNCHANGED <<backendVars, appVars, authVars>>

HookNext == Next \/ ClearItemsCall

SpecHook == Init /\ [][HookNext]_vars

\* ------------------------------------------------------------------ the application with its teardown
TeardownNext == Next \/ Unmount

SpecTeardown == Init /\ [][TeardownNext]_vars

\* ================================================================== claims
MutatingKinds == {"create", "update", "delete"}

\* steps of the call in slot s
Answered(s) == ops[s].pc = "request" /\ ops'[s].pc = "response"
Settled(s) == ops[s].pc = "response" /\ ops'[s].pc = "idle"
Refused(s) == ops[s].pc = "getSession" /\ ops'[s].pc = "idle"

Quiescent ==
    /\ \A s \in Slots : ops[s].pc = "idle"
    /\ check.pc = "done"
    /\ auth.pc = "idle"
    /\ logout = "idle"

\* C1: every item in the list belongs to the user of the current session.
C1_OwnItemsOnly ==
    session # NoSession => \A i \in 1..Len(items) : items[i].user_id = session

\* C2: a createItem, updateItem or deleteItem that finds no session fails with
\* the unauthenticated error, sends no request to the collection and leaves
\* the list (and the table) as they are.
C2_UnauthenticatedMutation ==
    [][\A s \in Slots :
         (/\ ops[s].pc = "getSession"
          /\ ops[s].kind \in MutatingKinds
          /\ session = NoSession
          /\ ops'[s] # ops[s])
         => /\ lastResult'.kind = ops[s].kind
            /\ ~lastResult'.success
            /\ lastResult'.error = ErrUnauth
            /\ ops'[s] = IdleOp
            /\ \A t \in Slots : ops'[t].pc = "request" => ops[t].pc = "request"
            /\ items' = items
            /\ tasks' = tasks]_vars

C2_Witness ==
    /\ lastResult.kind \in MutatingKinds
    /\ ~lastResult.success
    /\ lastResult.error = ErrUnauth
    /\ items # <<>>

\* C3: a deleteItem(id) of an authenticated user that matches no row of the
\* table (no such id, or another user's row) returns a failure and leaves
\* the length of the list unchanged.
C3_DeleteMissingFails ==
    [][\A s \in Slots :
         (/\ Settled(s)
          /\ ops[s].kind = "delete"
          /\ ops[s].err = Null
          /\ ops[s].data = <<>>)
         => /\ ~lastResult'.success
            /\ Len(items') = Len(items)]_vars

\* C4: an updateItem on a row of another user fails, leaves that row as it
\* is in the table, and leaves the list unchanged.
Foreign(s) == \E r \in tasks : r.id = ops[s].id /\ r.user_id # ops[s].userId

C4_UpdateForeignRow ==
    [][\A s \in Slots :
         (ops[s].kind = "update" /\ Foreign(s))
         => /\ Answered(s) => (tasks' = tasks /\ ops'[s].err # Null)
            /\ Settled(s) => /\ lastResult'.kind = "update"
                             /\ ~lastResult'.success
                             /\ lastResult'.error \in {ErrNoRows, ErrRemote}
                             /\ items' = items]_vars

C4_Witness ==
    /\ lastResult.kind = "update"
    /\ ~lastResult.success
    /\ lastResult.error = ErrNoRows
    /\ session # NoSession
    /\ \E r \in tasks : r.id = lastResult.id /\ r.user_id # session
    /\ items # <<>>

\* C5: every successful createItem makes the list one longer and puts the
\* row it created, which has the newest id of all, at index 0.
C5_CreatePrepends ==
    [][\A s \in Slots :
         (Settled(s) /\ ops[s].kind = "create" /\ ops[s].err = Null)
         => /\ Len(items') = Len(items) + 1
            /\ items'[1] = ops[s].data[1]
            /\ items'[1].id = nextId - 1
            /\ \A i \in 1..Len(items') : items'[i].id <= items'[1].id]_vars

C5_Witness ==
    /\ lastResult.kind = "create" /\ lastResult.success
    /\ lastResult.prev = "create"
    /\ lastResult.lenBefore >= 1
    /\ Len(items) = lastResult.lenBefore + 1
    /\ items[1].id = nextId - 1
    /\ items[2].id = nextId - 2

\* C6: a call that ends in failure leaves the list as it was: it sets the
\* error, and a fetch also resets loading. The list changes only when a call
\* ends in success.
C6_FailureKeepsList ==
    [][/\ \A s \in Slots :
            ((Refused(s) \/ (Settled(s) /\ ops[s].err # Null)))
            => /\ items' = items
               /\ error' # Null
               /\ ~lastResult'.success
               /\ loading' = (IF ops[s].kind \in FetchKinds THEN FALSE ELSE loading)
       /\ items' # items => \E s \in Slots : Settled(s) /\ ops[s].err = Null]_vars

C6_Witness ==
    /\ ~lastResult.success
    /\ lastResult.kind = "fetchItems"
    /\ lastResult.error = ErrRemote
    /\ items # <<>>

\* C7: a successful fetchItems that completes next after a successful
\* fetchHighPriorityTasks, with no change of the table since it was answered,
\* leaves the list equal to all rows of its user, in descending id order.
FullListOf(user, list) ==
    /\ {list[i] : i \in 1..Len(list)} = {r \in tasks : r.user_id = user}
    /\ \A i \in 1..(Len(list) - 1) : list[i].id > list[i + 1].id

C7_FetchAllRestores ==
    [][\A s \in Slots :
         (/\ Settled(s)
          /\ ops[s].kind = "fetchItems"
          /\ ops[s].err = Null
          /\ ops[s].fresh
          /\ lastResult.kind = "fetchHigh"
          /\ lastResult.success)
         => FullListOf(ops[s].userId, items')]_vars

C7_Witness ==
    /\ lastResult.kind = "fetchItems" /\ lastResult.success
    /\ lastResult.prev = "fetchHigh"
    /\ \E i \in 1..Len(items) : items[i].priority # "High"
    /\ \E i \in 1..Len(items) : items[i].priority = "High"
    /\ FullListOf(session, items)

\* C8: after a sign-out with a non-empty list and the clearItems that
\* follows it, the list stays empty and the error stays null whatever the
\* calls that were in flight at that moment get as their answer.
SignedOutAndCleared ==
    /\ lastResult.kind = "clear"
    /\ lastResult.lenBefore > 0
    /\ lastAuth = [op |-> "signOut", ok |-> TRUE]
    /\ session = NoSession
    /\ items = <<>>
    /\ error = Null

C8_ClearedWhateverRemoteResponds ==
    [][\A s \in Slots :
         (SignedOutAndCleared /\ s \in lastResult.pending /\ (Settled(s) \/ Refused(s)))
         => (items' = <<>> /\ error' = Null)]_vars

\* The part of C8 that is about the call itself: clearItems leaves the list
\* empty and the error null, and sends nothing.
ClearItemsEffect ==
    [][(lastResult' # lastResult /\ lastResult'.kind = "clear")
       => /\ items' = <<>>
          /\ error' = Null
          /\ UNCHANGED <<ops, tasks, nextId, fetchUser, session>>]_vars

\* C9 as stated: isAuthenticated rises only on a successful sign-in or
\* sign-up or a pushed session, falls only on a successful sign-out or a
\* pushed null session, and a failed sign-in, sign-up or sign-out leaves it.
Rises == ~isAuthenticated /\ isAuthenticated'
Falls == isAuthenticated /\ ~isAuthenticated'
FailedAuthCall ==
    lastAuth' # lastAuth /\ ~lastAuth'.ok /\ lastAuth'.op \in {"signIn", "signUp", "signOut"}

C9_FlagTransitions ==
    [][/\ Rises => /\ lastAuth' # lastAuth /\ lastAuth'.ok
                   /\ lastAuth'.op \in {"signIn", "signUp", "alertOk", "pushSession"}
       /\ Falls => /\ lastAuth' # lastAuth /\ lastAuth'.ok
                   /\ lastAuth'.op \in {"signOut", "pushNull"}
       /\ FailedAuthCall => isAuthenticated' = isAuthenticated]_vars

\* C9 amended: as C9, and the flag also rises when the startup session
\* check finds a session.
C9_FlagTransitionsWithStartup ==
    [][/\ Rises => /\ lastAuth' # lastAuth /\ lastAuth'.ok
                   /\ lastAuth'.op \in {"signIn", "signUp", "alertOk", "pushSession", "check"}
       /\ Falls => /\ lastAuth' # lastAuth /\ lastAuth'.ok
                   /\ lastAuth'.op \in {"signOut", "pushNull"}
       /\ FailedAuthCall => isAuthenticated' = isAuthenticated]_vars

C9_Witness ==
    /\ lastAuth = [op |-> "signOut", ok |-> FALSE]
    /\ isAuthenticated
    /\ session # NoSession

\* C10: when nothing is in flight any more and a user is authenticated, a
\* fetch for that user has been sent.
C10_FetchOnceAuthenticated ==
    (Quiescent /\ isAuthenticated /\ session # NoSession) => fetchUser = session

\* C11: while a fetchItems or fetchHighPriorityTasks call is in flight,
\* loading is true, whatever other fetch calls start or complete meanwhile.
FetchInFlight == \E s \in Slots : ops[s].pc # "idle" /\ ops[s].kind \in FetchKinds

C11_LoadingWhileFetching == FetchInFlight => loading

\* C12: every password that handleAuth sends to signUp or signInWithPassword
\* is non-empty and has at least 6 characters.
C12_SentPasswordValid ==
    auth.pc = "request" => (auth.password # <<>> /\ Len(auth.password) >= MinPasswordLen)

\* C13: a successful updateItem(id, ...) puts the returned row in place of the
\* entry with that id, at the same index, and leaves the length of the list
\* and every other entry where it was.
C13_UpdateInPlace ==
    [][\A s \in Slots :
         (Settled(s) /\ ops[s].kind = "update" /\ ops[s].err = Null)
         => /\ Len(items') = Len(items)
            /\ \A i \in 1..Len(items) :
                 items'[i] = IF items[i].id = ops[s].id THEN ops[s].data[1] ELSE items[i]]_vars

C13_Witness ==
    /\ lastResult.kind = "update" /\ lastResult.success
    /\ Len(items) = lastResult.lenBefore
    /\ Len(items) >= 2
    /\ items[1].id # lastResult.id
    /\ items[1].priority # "Medium"
    /\ \E i \in 2..Len(items) :
         /\ items[i].id = lastResult.id
         /\ items[i].priority = "Medium"
         /\ items[i] \in tasks

\* C14: once the cleanup of the auth effect has run, neither a pushed
\* session change nor the startup session check that is still pending
\* changes the session state of App.
C14_NoChangeAfterTeardown ==
    [][(~subscribed /\ auth.pc = "idle" /\ logout = "idle")
       => UNCHANGED <<isAuthenticated, userEmail>>]_vars

\* C15: when the startup session check ends with no session or with a failed
\* query, the session state is Unauthenticated, also when a session change
\* was pushed before the check ended.
CheckEnds == check.pc # "done" /\ check'.pc = "done"

C15_CheckLeavesUnauthenticated ==
    [][(CheckEnds /\ (check.pc = "pending" \/ check.session = NoSession))
       => (~isAuthenticated' /\ ~isCheckingAuth')]_vars

\* C16: whenever all calls have completed, the list is in strictly
\* descending order of id.
C16_DescendingOrder ==
    (\A s \in Slots : ops[s].pc = "idle")
    => \A i \in 1..(Len(items) - 1) : items[i].id > items[i + 1].id

\* C17: the list never holds two entries with the same id.
C17_UniqueIds ==
    \A i, j \in 1..Len(items) : items[i].id = items[j].id => i = j

\* C18: when no auth call and no session check is in flight, isAuthenticated
\* is true only if the auth client holds a session.
C18_FlagImpliesSession ==
    (auth.pc = "idle" /\ logout = "idle" /\ check.pc = "done" /\ isAuthenticated)
    => session # NoSession

====
